---- MODULE Spec2Model ----
(***************************************************************************)
(* Model of the Chain task orchestrator (supercat1337/chain).              *)
(*                                                                         *)
(* The repository holds two generations of the library:                    *)
(*   "Engine"          src/src/index.js             (run(ctx), raiseError) *)
(*   "ChainController" src/examples/3. cancel.js:44-441 (run(initValue,    *)
(*                     ctx), private state, abort in the catch block)      *)
(* The variable `variant` fixes, at construction, which of the two is      *)
(* running; every action follows the code of that generation.              *)
(*                                                                         *)
(* JavaScript is single threaded: an action is one synchronous stretch of  *)
(* code.  The stretches of Chain.run are cut where control can leave it:   *)
(* at the await of a step, and at every #emit, whose listeners run user    *)
(* code (which may call run(), cancel(), add()) before #emit returns.      *)
(*                                                                         *)
(* The specifications share the variables and the actions of the run loop: *)
(* Spec (steps that return, throw, sleep and call the controller),         *)
(* SpecPrimitives (steps that also use fetch and wrap), SpecStale (calls   *)
(* on the controller of a run that has ended), SpecWaiters (callers of     *)
(* waitForChainToFinish() and of the whole of Chain.cancel()); SpecFair    *)
(* and SpecWaitersFair are Spec and SpecWaiters with the event loop making *)
(* progress.                                                               *)
(***************************************************************************)
EXTENDS Integers, Sequences, FiniteSets, TLC

(* ------------------------------ bounds -------------------------------- *)
MaxRuns == 2      \* run() calls made on the Chain over its life
MaxTasks == 2     \* steps registered with add()
MaxWaiters == 2   \* waitForChainToFinish() / cancel() promises observed

(* ------------------------------ values -------------------------------- *)
Variants == {"Engine", "ChainController"}

\* JavaScript values a step returns / run() resolves to
StepValues == {"undefined", "v1"}      \* what a step returns
CompleteValues == {"v2"}               \* what a step hands to complete()

\* A thrown value.  kind "Error" is an object with a message (and a cause);
\* kind "null" is the non-object `null`, on which `.message` cannot be read;
\* kind "string" is a string, whose `.message` is undefined.
\* origin is history: who created the value ("controller", "step", "chain").
Fault(k, m, c, o) == [kind |-> k, message |-> m, cause |-> c, origin |-> o]
NoFault == Fault("none", "", "undefined", "none")
CancelSignal == Fault("Error", "Cancel", "undefined", "controller")
AlreadyRunning == Fault("Error", "Already running", "undefined", "chain")
\* signal.reason after Chain.cancel(), which calls abort("Cancel"): the value
\* a pending fetch on that signal rejects with
AbortReason == Fault("string", "", "undefined", "signal")
\* signal.reason after abort() without an argument: a DOMException named
\* AbortError
AbortError == Fault("Error", "This operation was aborted", "undefined", "signal")
\* what a function handed to wrap() rejects with when it fails
FnFault == Fault("Error", "custom error", "undefined", "fn")

\* Faults step code can throw itself (or hand to raiseError)
StepFaults ==
    { Fault("Error", "custom error", "undefined", "step"),
      Fault("Error", "Cancel", "undefined", "step"),
      Fault("Error", "Complete", "undefined", "step"),
      Fault("null", "", "undefined", "step") }

RunIds == 1..MaxRuns
\* controller 0 is the one the field initialiser creates; run r creates r
CtlIds == 0..MaxRuns

VARIABLES
    variant,                \* which generation of the library
    tasks,                  \* Chain.tasks
    isRunning,              \* Chain.isRunning / #isRunning
    completedSuccessfully,  \* Chain.completedSuccessfully
    returnValue,            \* Chain.returnValue / #returnValue
    ctx,                    \* Chain.#ctx (identity of the mapping)
    engine,                 \* Chain.#engine / #chainController (its id)
    aborted,                \* abortController.signal.aborted, per controller
    run,                    \* the activation record of each run() call
    call,                   \* history: the latest step invocation of each run() call
    events,                 \* history: what #emit delivered, in order
    nruns,                  \* history: number of run() calls made
    waiters,                \* calls of waitForChainToFinish(): suspended / resolved
    stale,                  \* history: the latest call made on a stale controller
    lastTerminal            \* history: the most recent terminal event emitted

vars == <<variant, tasks, isRunning, completedSuccessfully, returnValue, ctx,
          engine, aborted, run, call, events, nruns, waiters, stale,
          lastTerminal>>

\* a Chain context is an object; only its identity matters here
CtxCtor == <<"ctor", 0>>      \* the mapping the field initialiser / constructor set
CtxArg == <<"arg", 0>>        \* a mapping the caller hands to run()
FreshCtx(r) == <<"fresh", r>> \* the `{}` literal evaluated by run() call r

\* n counts the step invocations the run() call has made; the other fields
\* describe the latest one: the index and the argument it was called with,
\* how it ended (out, via), the value it returned, the value it handed to
\* complete(), the value it threw; fn is the function the step handed to
\* wrap(): "callable" once wrap returned, "pending" while a call of it is
\* running, "settled" or "failed" after; sub tells whether the "abort"
\* callback of that call is registered on the signal; swallowed is the controller method whose signal
\* a try/catch of the step caught last, kept while the step executes
NoCall == [n |-> 0, index |-> -1, arg |-> "undefined", out |-> "none",
           via |-> "none", value |-> "undefined", handed |-> "undefined",
           fault |-> NoFault, fn |-> "none", swallowed |-> "none", sub |-> FALSE]

\* init is history: the initial value the caller handed to run(), kept until
\* the first step is called; timer and listener are history too: what the
\* latest controller.sleep of the step call in flight has registered (its
\* setTimeout timer, its "abort" callback on the signal), kept until the
\* loop goes on from that step call; committed is history: what
\* Chain.returnValue held when the run emitted its terminal event
NewRun == [pc |-> "new", i |-> -1, previousResult |-> "undefined",
           st |-> "none", ctl |-> 0, ret |-> "none", init |-> "undefined",
           settled |-> "pending", value |-> "undefined",
           timer |-> FALSE, listener |-> FALSE, committed |-> "undefined"]

\* The callers of waitForChainToFinish(), alone or as the last statement of
\* Chain.cancel(): how many are suspended in sleep(100) inside its loop and
\* how many promises it returned have resolved; during is history: the runs
\* that were active when the suspended calls were made
NoWaiters == [polling |-> 0, resolved |-> 0, during |-> {}]

\* A call made on the controller of a run that has ended, by a callback a
\* step left behind: which controller, which method
NoStale == [ctl |-> -1, op |-> "none"]

Init ==
    /\ variant \in Variants
    /\ tasks = << >>
    /\ isRunning = FALSE
    /\ completedSuccessfully = FALSE
    /\ returnValue = "undefined"
    /\ ctx = CtxCtor
    /\ engine = 0
    /\ aborted = [c \in CtlIds |-> FALSE]
    /\ run = [r \in RunIds |-> NewRun]
    /\ call = [r \in RunIds |-> NoCall]
    /\ events = << >>
    /\ nruns = 0
    /\ waiters = NoWaiters
    /\ stale = NoStale
    /\ lastTerminal = "none"

(* ------------------------- helpers of the model ----------------------- *)
\* this.tasks[i] is truthy (JavaScript indexes from 0)
HasTask(idx) == idx >= 0 /\ idx < Len(tasks)

\* #emit(name, {chain, taskIndex / lastTaskIndex, error}) appended to the history
Emit(name, r, idx, e) ==
    Append(SelectSeq(events, LAMBDA x : run[x.run].pc \notin {"done", "forgotten"}),
           [name |-> name, run |-> r, index |-> idx, error |-> e])

\* abortController.abort() on controller c: the flag, and ...
AbortSet(ab, c) == [ab EXCEPT ![c] = TRUE]

\* a faulty variant of Dispatch: the call of a wrapped function has no
\* "abort" callback (C16 must tell it from Dispatch)
DispatchSparesWrapped(rn, c) ==
    [q \in RunIds |->
        IF rn[q].ctl = c /\ ~aborted[c] /\ rn[q].st \in {"sleeping", "fetching"}
        THEN [rn[q] EXCEPT !.st = IF @ = "sleeping" THEN "sleepRejected"
                                                    ELSE "fetchRejected",
                           !.timer = IF rn[q].st = "sleeping" THEN FALSE ELSE @]
        ELSE rn[q]]

\* ... the synchronous dispatch of "abort": to the callback a pending
\* controller.sleep registered (clearTimeout, reject(new Error("Cancel")),
\* and the callback stays on the signal),
\* to the callback a pending call of a wrapped function registered
\* (reject(new Error("Cancel"))), and to a pending fetch on the signal.
\* An already aborted signal dispatches nothing.
Dispatch(rn, c) ==
    [q \in RunIds |->
        IF rn[q].ctl = c /\ ~aborted[c] /\ rn[q].st \in {"sleeping", "wrapped", "fetching"}
        THEN [rn[q] EXCEPT !.st = CASE @ = "sleeping" -> "sleepRejected"
                                    [] @ = "wrapped" -> "wrapRejected"
                                    [] OTHER -> "fetchRejected",
                           !.timer = IF rn[q].st = "sleeping" THEN FALSE ELSE @]
        ELSE rn[q]]

\* history: the record of the step call in flight for run r, settled
Settle(r, via, v, h, f) ==
    [call EXCEPT ![r] =
        [@ EXCEPT !.out = IF f = NoFault THEN "returned" ELSE "threw",
                  !.via = via, !.value = v, !.handed = h, !.fault = f,
                  !.swallowed = "none"]]

(* ------------------------- run to completion -------------------------- *)
\* A run() call with pc "started" or "emitted" is inside #emit: its
\* listeners are executing, synchronously, on top of it.  Until the newest
\* such call goes on, the only code that runs is code the listeners call:
\* no await resumes and no timer fires.
OnStack(q) == run[q].pc \in {"started", "emitted"}
IsTop(q) == OnStack(q) /\ \A p \in RunIds : p > q => ~OnStack(p)
NoListener == \A q \in RunIds : ~OnStack(q)
\* run r was called by the listeners now executing (or none is executing)
Nested(r) == \A q \in RunIds : OnStack(q) => r > q

(* ------------------------------ Chain.run ----------------------------- *)
\* The activation record of a run() call whose promise settled: only how it
\* settled is left.  Its locals and its history (the call of its step, the
\* events it emitted) are dropped: the history variables cover the run()
\* calls that have not returned.
Returned(how, v) == [NewRun EXCEPT !.pc = "done", !.settled = how, !.value = v]
\* What is left of a call that returned lasts until run() code executes
\* again (for any call): then it is forgotten.
Forgotten == [NewRun EXCEPT !.pc = "forgotten"]
Sweep(rn) == [q \in RunIds |-> IF rn[q].pc = "done" THEN Forgotten ELSE rn[q]]
Live(q) == run[q].pc \notin {"done", "forgotten"}
LiveEvents == SelectSeq(events, LAMBDA e : Live(e.run))
EventsWithout(r) == SelectSeq(events, LAMBDA e : Live(e.run) /\ e.run # r)

\* a faulty variant of Terminal: the terminal event is emitted while the
\* Chain still counts as running (C14 must tell it from Terminal)
TerminalEmitsWhileRunning(r, idx, ab, rn, cs, rv, name, eidx, err, ret) ==
    /\ isRunning' = TRUE
    /\ completedSuccessfully' = cs
    /\ returnValue' = rv
    /\ aborted' = ab
    /\ events' = Emit(name, r, eidx, err)
    /\ lastTerminal' = name
    /\ run' = [Sweep(rn) EXCEPT ![r] =
                  [@ EXCEPT !.pc = "emitted", !.i = idx, !.st = "none", !.ctl = 0,
                            !.timer = FALSE, !.listener = FALSE, !.committed = rv,
                            !.previousResult = IF ret = "prev" THEN @ ELSE "undefined",
                            !.ret = ret]]
    /\ UNCHANGED <<variant, waiters, stale, tasks, ctx, engine, call, nruns>>

\* The state updates of a terminal branch, then its #emit: control is now
\* inside the listeners (pc "emitted"); the return statement is still ahead.
Terminal(r, idx, ab, rn, cs, rv, name, eidx, err, ret) ==
    /\ isRunning' = FALSE
    /\ completedSuccessfully' = cs
    /\ returnValue' = rv
    /\ aborted' = ab
    /\ events' = Emit(name, r, eidx, err)
    /\ lastTerminal' = name
    \* of the locals only what the return statement reads is still needed
    /\ run' = [Sweep(rn) EXCEPT ![r] =
                  [@ EXCEPT !.pc = "emitted", !.i = idx, !.st = "none", !.ctl = 0,
                            !.timer = FALSE, !.listener = FALSE, !.committed = rv,
                            !.previousResult = IF ret = "prev" THEN @ ELSE "undefined",
                            !.ret = ret]]
    /\ UNCHANGED <<variant, waiters, stale, tasks, ctx, engine, call, nruns>>

\* `e.message` on a value that is no object (null) throws a TypeError inside
\* the catch block: nothing catches it, the promise of run() rejects.  What
\* ran before the read stays done: isRunning = false (and, in the
\* ChainController generation, the abort).
CatchTypeError(r, idx, ab, rn, rv) ==
    /\ isRunning' = FALSE
    /\ returnValue' = rv
    /\ aborted' = ab
    /\ run' = [Sweep(rn) EXCEPT ![r] = Returned("rejected", "undefined")]
    /\ call' = [call EXCEPT ![r] = NoCall]
    /\ events' = EventsWithout(r)
    /\ UNCHANGED <<variant, lastTerminal, waiters, stale, tasks, ctx, engine, nruns, completedSuccessfully>>

\* the catch block of the step loop, entered with the thrown value e at
\* index idx; rv is Chain.returnValue on entry
Catch(r, idx, e, rv) ==
    LET cc == variant = "ChainController"
        ab == IF cc /\ ~aborted[engine] THEN AbortSet(aborted, engine) ELSE aborted
        rn == IF cc THEN Dispatch(run, engine) ELSE run
    IN  IF e.kind = "null"
        THEN CatchTypeError(r, idx, ab, rn, rv)
        ELSE IF e.message = "Complete"
        THEN Terminal(r, idx, ab, rn, TRUE, IF cc THEN e.cause ELSE rv,
                      "complete", idx, NoFault, "field")
        ELSE IF e.message = "Cancel"
        THEN Terminal(r, idx, ab, rn, FALSE, IF cc THEN "null" ELSE rv,
                      "cancel", idx, NoFault, IF cc THEN "field" ELSE "null")
        ELSE Terminal(r, idx, ab, rn, FALSE, "null",
                      "error", idx, e, IF cc THEN "field" ELSE "null")

\* the code after the step loop: normal completion
Final(r, idx, prev) ==
    LET cc == variant = "ChainController"
        ab == IF cc /\ ~aborted[engine] THEN AbortSet(aborted, engine) ELSE aborted
        rn == IF cc THEN Dispatch(run, engine) ELSE run
    IN  Terminal(r, idx, ab, [rn EXCEPT ![r].previousResult = prev],
                 TRUE, prev, "complete", IF cc THEN idx ELSE idx - 1,
                 NoFault, IF cc THEN "field" ELSE "prev")

\* a faulty variant of StepCall: the step is called without the previous
\* result (C3 must tell it from StepCall)
StepCallDropsResult(n, idx, prev) ==
    [n |-> n + 1, index |-> idx, arg |-> "undefined", out |-> "inflight",
     via |-> "none", value |-> "undefined", handed |-> "undefined",
     fault |-> NoFault, fn |-> "none", swallowed |-> "none", sub |-> FALSE]

\* this.tasks[i](previousResult, controller): the record of the n-th call
StepCall(n, idx, prev) ==
    [n |-> n + 1, index |-> idx, arg |-> prev, out |-> "inflight",
     via |-> "none", value |-> "undefined", handed |-> "undefined",
     fault |-> NoFault, fn |-> "none", swallowed |-> "none", sub |-> FALSE]

\* a faulty variant of NextIndex: the loop advances by two (C2 must tell it
\* from NextIndex)
NextIndexSkips(idx) == idx + 2

\* i++
NextIndex(idx) == idx + 1

\* one pass of the loop body up to the await, tasks[idx] being there:
\* checkAbortSignal() (which calls cancel() on a set token, and cancel()
\* throws into the catch block), else the call of tasks[idx]
Iterate(r, idx, prev) ==
    IF aborted[engine]
    THEN Catch(r, idx, CancelSignal,
               IF variant = "Engine" THEN "null" ELSE returnValue)
    ELSE \* (init is history of use only until a step was called)
         /\ run' = [Sweep(run) EXCEPT ![r] = [@ EXCEPT !.pc = "inflight",
                                               !.i = idx, !.previousResult = prev,
                                               !.st = "running", !.ctl = engine,
                                               !.init = "undefined",
                                               !.timer = FALSE, !.listener = FALSE]]
         /\ call' = [call EXCEPT ![r] = StepCall(@.n, idx, prev)]
         /\ events' = LiveEvents
         /\ UNCHANGED <<variant, lastTerminal, waiters, stale, tasks, isRunning, completedSuccessfully,
                        returnValue, ctx, engine, aborted, nruns>>

\* a faulty variant of RunRefused: the guard placed after the creation of
\* the controller (C11 must tell it from RunRefused)
RunRefusedNewController(r) ==
    /\ events' = Emit("error", r, -1, AlreadyRunning)
    /\ run' = [Sweep(run) EXCEPT ![r] =
                  [Returned("fulfilled", "null") EXCEPT !.ret = "refused"]]
    /\ engine' = r
    /\ aborted' = [aborted EXCEPT ![r] = FALSE]
    /\ UNCHANGED <<variant, lastTerminal, waiters, stale, tasks, isRunning, completedSuccessfully,
                   returnValue, ctx, call>>

\* a faulty variant of RunRefused: a bare `return` after the error event
\* (C10 must tell it from RunRefused)
RunRefusedReturnsUndefined(r) ==
    /\ events' = Emit("error", r, -1, AlreadyRunning)
    /\ run' = [Sweep(run) EXCEPT ![r] =
                  [Returned("fulfilled", "undefined") EXCEPT !.ret = "refused"]]
    /\ UNCHANGED <<variant, lastTerminal, waiters, stale, tasks, isRunning, completedSuccessfully,
                   returnValue, ctx, engine, aborted, call>>

\* run() on a Chain that is running: the "Already running" error event and
\* `return null`; nothing of the Chain is written
RunRefused(r) ==
    /\ events' = Emit("error", r, -1, AlreadyRunning)
    /\ run' = [Sweep(run) EXCEPT ![r] =
                  [Returned("fulfilled", "null") EXCEPT !.ret = "refused"]]
    /\ UNCHANGED <<variant, lastTerminal, waiters, stale, tasks, isRunning, completedSuccessfully,
                   returnValue, ctx, engine, aborted, call>>

\* a faulty variant of RunAccepted: the run goes on with the controller the
\* Chain already has (C26 must tell it from RunAccepted)
RunAcceptedReusesController(r, initValue, c) ==
    /\ engine' = engine
    /\ aborted' = aborted
    /\ isRunning' = TRUE
    /\ completedSuccessfully' = FALSE
    /\ returnValue' = "null"
    /\ ctx' = IF variant = "Engine"
              THEN (IF c = "none" THEN FreshCtx(r) ELSE CtxArg)
              ELSE (IF c = "none" THEN ctx ELSE CtxArg)
    /\ events' = Emit("run", r, -1, NoFault)
    /\ run' = [Sweep(run) EXCEPT ![r] = [@ EXCEPT !.pc = "started",
                  !.init = initValue,
                  !.previousResult =
                      IF variant = "Engine" THEN "undefined" ELSE initValue]]
    /\ UNCHANGED <<variant, lastTerminal, waiters, stale, tasks, call>>

\* run() on an idle Chain: the new controller, the reset and the "run" event
RunAccepted(r, initValue, c) ==
    /\ engine' = r
    /\ aborted' = [aborted EXCEPT ![r] = FALSE]
    /\ isRunning' = TRUE
    /\ completedSuccessfully' = FALSE
    /\ returnValue' = "null"
    /\ ctx' = IF variant = "Engine"
              THEN (IF c = "none" THEN FreshCtx(r) ELSE CtxArg)
              ELSE (IF c = "none" THEN ctx ELSE CtxArg)
    /\ events' = Emit("run", r, -1, NoFault)
    /\ run' = [Sweep(run) EXCEPT ![r] = [@ EXCEPT !.pc = "started",
                  !.init = initValue,
                  !.previousResult =
                      IF variant = "Engine" THEN "undefined" ELSE initValue]]
    /\ UNCHANGED <<variant, lastTerminal, waiters, stale, tasks, call>>

\* a faulty variant of Run: no isRunning guard (C12 must tell it from Run)
RunUnguarded(initValue, c) ==
    /\ nruns < MaxRuns
    /\ nruns' = nruns + 1
    /\ RunAccepted(nruns + 1, initValue, c)

\* run(ctx) / run(initValue, ctx): the r-th call made on the Chain
Run(initValue, c) ==
    /\ nruns < MaxRuns
    /\ nruns' = nruns + 1
    /\ IF isRunning THEN RunRefused(nruns + 1)
                    ELSE RunAccepted(nruns + 1, initValue, c)

\* run() after the "run" event was delivered: entry of the step loop
Begin(r) ==
    /\ run[r].pc = "started"
    /\ IsTop(r)
    /\ LET prev == run[r].previousResult IN
       IF variant = "Engine"
       THEN IF HasTask(0) THEN Iterate(r, 0, prev) ELSE Final(r, 0, prev)
       ELSE IF Len(tasks) > 0 THEN Iterate(r, 0, prev) ELSE Final(r, -1, prev)

\* run() resumed by the settled promise of the step it awaited
Resume(r) ==
    /\ run[r].pc = "inflight"
    /\ run[r].st = "settled"
    \* inside a listener only a synchronous throw of the step called there
    \* reaches the catch block; a settled promise is awaited
    /\ \/ NoListener
       \/ Nested(r) /\ call[r].out = "threw"
    /\ LET idx == run[r].i
           res == call[r].value
       IN  IF call[r].out = "threw"
           THEN Catch(r, idx, call[r].fault, returnValue)
           ELSE IF variant = "ChainController" /\ idx + 1 >= Len(tasks)
           THEN Final(r, idx, res)                       \* break
           ELSE IF HasTask(NextIndex(idx))               \* i++; while (tasks[i])
           THEN Iterate(r, NextIndex(idx), res)
           ELSE Final(r, NextIndex(idx), res)

\* run() after the listeners of its terminal event returned: the return
\* statement, which reads what it returns only now
Return(r) ==
    /\ run[r].pc = "emitted"
    /\ IsTop(r)
    /\ run' = [Sweep(run) EXCEPT ![r] = Returned("fulfilled",
                  CASE run[r].ret = "field" -> returnValue
                    [] run[r].ret = "prev" -> run[r].previousResult
                    [] OTHER -> "null")]
    /\ call' = [call EXCEPT ![r] = NoCall]
    /\ events' = EventsWithout(r)
    /\ UNCHANGED <<variant, lastTerminal, waiters, stale, tasks, isRunning, completedSuccessfully, returnValue,
                   ctx, engine, aborted, nruns>>

(* ------------------------ Engine / ChainController -------------------- *)
\* What a controller method does before control leaves it, as a record:
\* rv = Chain.returnValue afterwards, abort = whether it called
\* abortController.abort(), fault = what it throws (NoFault: it returns).
Effect(rv, ab, f) == [rv |-> rv, abort |-> ab, fault |-> f, handed |-> "undefined"]

\* cancel(): the Engine writes chain.returnValue and aborts before it throws;
\* the ChainController only throws
CtlCancel ==
    IF variant = "Engine" THEN Effect("null", TRUE, CancelSignal)
                          ELSE Effect(returnValue, FALSE, CancelSignal)

\* a faulty variant of CtlCheckAbortSignal: the token is not looked at (C18
\* must tell it from CtlCheckAbortSignal)
CtlCheckAbortSignalBlind(c) == Effect(returnValue, FALSE, NoFault)

\* checkAbortSignal() of controller c
CtlCheckAbortSignal(c) ==
    IF aborted[c] THEN CtlCancel ELSE Effect(returnValue, FALSE, NoFault)

\* complete(return_value) of controller c
CtlComplete(c, v) ==
    IF aborted[c] THEN CtlCancel
    ELSE [(IF variant = "Engine"
           THEN Effect(v, TRUE, Fault("Error", "Complete", "undefined", "controller"))
           ELSE Effect(returnValue, FALSE, Fault("Error", "Complete", v, "controller")))
          EXCEPT !.handed = v]

\* raiseError(error) of controller c (Engine generation only)
CtlRaiseError(c, e) ==
    IF aborted[c] THEN CtlCancel ELSE Effect("null", TRUE, e)

(* ----------------------------- step code ------------------------------ *)
\* Run r awaits its step, and the step is executing synchronous code
InStep(r) == run[r].pc = "inflight" /\ run[r].st = "running" /\ Nested(r)

\* The step of run r called a controller method with effect eff.  A thrown
\* signal either leaves the step (its promise rejects) or is caught by a
\* try/catch of the step, which then goes on.
StepCtl(r, via, eff, caught) ==
    LET c == run[r].ctl
        rn == IF eff.abort THEN Dispatch(run, c) ELSE run
        thrown == eff.fault # NoFault /\ ~caught
    IN  /\ returnValue' = eff.rv
        /\ aborted' = IF eff.abort THEN AbortSet(aborted, c) ELSE aborted
        /\ run' = IF thrown THEN [rn EXCEPT ![r].st = "settled"] ELSE rn
        /\ call' = IF thrown THEN Settle(r, via, "undefined", eff.handed, eff.fault)
                   ELSE IF eff.fault # NoFault THEN [call EXCEPT ![r].swallowed = via]
                   ELSE call
        /\ UNCHANGED <<variant, lastTerminal, waiters, stale, tasks, isRunning, completedSuccessfully, ctx,
                       engine, events, nruns>>

\* the step returns v
StepReturn(r, v) ==
    /\ InStep(r)
    /\ run' = [run EXCEPT ![r].st = "settled"]
    /\ call' = Settle(r, "return", v, "undefined", NoFault)
    /\ UNCHANGED <<variant, lastTerminal, waiters, stale, tasks, isRunning, completedSuccessfully, returnValue,
                   ctx, engine, aborted, events, nruns>>

\* the step throws a value of its own
StepThrow(r, f) ==
    /\ InStep(r)
    /\ run' = [run EXCEPT ![r].st = "settled"]
    /\ call' = Settle(r, "throw", "undefined", "undefined", f)
    /\ UNCHANGED <<variant, lastTerminal, waiters, stale, tasks, isRunning, completedSuccessfully, returnValue,
                   ctx, engine, aborted, events, nruns>>

StepCancel(r, caught) ==
    /\ InStep(r)
    /\ StepCtl(r, "cancel", CtlCancel, caught)

StepComplete(r, v, caught) ==
    /\ InStep(r)
    /\ StepCtl(r, "complete", CtlComplete(run[r].ctl, v), caught)

StepRaiseError(r, e) ==
    /\ variant = "Engine"
    /\ InStep(r)
    /\ StepCtl(r, "raiseError", CtlRaiseError(run[r].ctl, e), FALSE)

\* the step calls checkAbortSignal(); on a clear token nothing happens
StepCheckAbortSignal(r) ==
    /\ InStep(r)
    /\ aborted[run[r].ctl]
    /\ StepCtl(r, "check", CtlCheckAbortSignal(run[r].ctl), FALSE)

\* the step calls controller.abortController.abort() itself
StepAbort(r) ==
    /\ InStep(r)
    /\ ~aborted[run[r].ctl]
    /\ StepCtl(r, "abort", Effect(returnValue, TRUE, NoFault), FALSE)

\* await controller.sleep(ms): checkAbortSignal(), then timer and listener
StepSleep(r) ==
    /\ InStep(r)
    /\ LET chk == CtlCheckAbortSignal(run[r].ctl) IN
       IF chk.fault # NoFault
       THEN StepCtl(r, "sleep", chk, FALSE)
       ELSE /\ run' = [run EXCEPT ![r].st = "sleeping", ![r].timer = TRUE,
                                  ![r].listener = TRUE]
            /\ UNCHANGED <<variant, lastTerminal, waiters, stale, tasks, isRunning, completedSuccessfully,
                           returnValue, ctx, engine, aborted, call, events, nruns>>

\* the timer of a pending sleep fires: removeEventListener, resolve()
SleepTimeout(r) ==
    /\ NoListener
    /\ run[r].pc = "inflight"
    /\ run[r].st = "sleeping"
    /\ run' = [run EXCEPT ![r].st = "running", ![r].timer = FALSE,
                          ![r].listener = FALSE]
    /\ UNCHANGED <<variant, lastTerminal, waiters, stale, tasks, isRunning, completedSuccessfully, returnValue,
                   ctx, engine, aborted, call, events, nruns>>

\* the step resumes from a sleep the abort callback rejected with
\* Error("Cancel"): the await throws
SleepCancelled(r, caught) ==
    /\ NoListener
    /\ run[r].pc = "inflight"
    /\ run[r].st = "sleepRejected"
    /\ run' = [run EXCEPT ![r].st = IF caught THEN "running" ELSE "settled"]
    /\ call' = IF caught THEN call
                         ELSE Settle(r, "sleepAbort", "undefined", "undefined", CancelSignal)
    /\ UNCHANGED <<variant, lastTerminal, waiters, stale, tasks, isRunning, completedSuccessfully, returnValue,
                   ctx, engine, aborted, events, nruns>>

\* await controller.fetch(url): checkAbortSignal(), then the global fetch
\* with the signal of the controller
StepFetch(r) ==
    /\ InStep(r)
    /\ LET chk == CtlCheckAbortSignal(run[r].ctl) IN
       IF chk.fault # NoFault
       THEN StepCtl(r, "fetch", chk, FALSE)
       ELSE /\ run' = [run EXCEPT ![r].st = "fetching"]
            /\ UNCHANGED <<variant, lastTerminal, waiters, stale, tasks, isRunning, completedSuccessfully,
                           returnValue, ctx, engine, aborted, call, events, nruns>>

\* the response of a pending fetch arrives
FetchSettles(r) ==
    /\ NoListener
    /\ run[r].pc = "inflight"
    /\ run[r].st = "fetching"
    /\ run' = [run EXCEPT ![r].st = "running"]
    /\ UNCHANGED <<variant, lastTerminal, waiters, stale, tasks, isRunning, completedSuccessfully, returnValue,
                   ctx, engine, aborted, call, events, nruns>>

\* the step started controller.fetch(url) and, before it awaits the promise,
\* calls controller.abortController.abort() itself: the fetch is aborted
\* with the default reason of the signal
FetchAbort(r) ==
    /\ NoListener
    /\ run[r].pc = "inflight"
    /\ run[r].st = "fetching"
    /\ ~aborted[run[r].ctl]
    /\ aborted' = AbortSet(aborted, run[r].ctl)
    /\ run' = [run EXCEPT ![r].st = "fetchAborted"]
    /\ UNCHANGED <<variant, lastTerminal, waiters, stale, tasks, isRunning, completedSuccessfully, returnValue,
                   ctx, engine, call, events, nruns>>

\* the step resumes from a fetch the signal aborted: the await throws the
\* reason of the signal ("Cancel" after Chain.cancel(), the AbortError after
\* abort())
FetchCancelled(r, caught) ==
    /\ NoListener
    /\ run[r].pc = "inflight"
    /\ run[r].st \in {"fetchRejected", "fetchAborted"}
    /\ run' = [run EXCEPT ![r].st = IF caught THEN "running" ELSE "settled"]
    /\ call' = IF caught THEN call
                         ELSE Settle(r, "fetchAbort", "undefined", "undefined",
                                     IF run[r].st = "fetchRejected" THEN AbortReason
                                                                    ELSE AbortError)
    /\ UNCHANGED <<variant, lastTerminal, waiters, stale, tasks, isRunning, completedSuccessfully, returnValue,
                   ctx, engine, aborted, events, nruns>>

\* controller.wrap(fn): checkAbortSignal(), then the callable is returned
StepWrap(r) ==
    /\ InStep(r)
    /\ call[r].fn = "none"
    /\ LET chk == CtlCheckAbortSignal(run[r].ctl) IN
       IF chk.fault # NoFault
       THEN StepCtl(r, "wrap", chk, FALSE)
       ELSE /\ call' = [call EXCEPT ![r].fn = "callable"]
            /\ UNCHANGED <<variant, lastTerminal, waiters, stale, tasks, isRunning, completedSuccessfully,
                           returnValue, ctx, engine, aborted, run, events, nruns>>

\* await of a call of the callable: the "abort" callback is registered, fn
\* is called, the step is suspended on the promise of the callable (no
\* check of the token is made here)
StepWrapCall(r) ==
    /\ InStep(r)
    /\ call[r].fn = "callable"
    /\ run' = [run EXCEPT ![r].st = "wrapped"]
    /\ call' = [call EXCEPT ![r].fn = "pending", ![r].sub = TRUE]
    /\ UNCHANGED <<variant, lastTerminal, waiters, stale, tasks, isRunning, completedSuccessfully, returnValue,
                   ctx, engine, aborted, events, nruns>>

\* the promise of fn resolves: removeEventListener, resolve(res); a promise
\* of the callable that was rejected before stays rejected
FnSettles(r) ==
    /\ NoListener
    /\ call[r].fn = "pending"
    /\ call' = [call EXCEPT ![r].fn = "settled", ![r].sub = FALSE]
    /\ run' = IF run[r].pc = "inflight" /\ run[r].st = "wrapped"
              THEN [run EXCEPT ![r].st = "running"] ELSE run
    /\ UNCHANGED <<variant, lastTerminal, waiters, stale, tasks, isRunning, completedSuccessfully, returnValue,
                   ctx, engine, aborted, events, nruns>>

\* the promise of fn rejects: .catch(reject) hands the fault of fn to the
\* promise of the callable (removeEventListener is not called), and the
\* await of the step throws it; a promise of the callable that was rejected
\* before stays as it is
FnFails(r) ==
    /\ NoListener
    /\ call[r].fn = "pending"
    /\ IF run[r].pc = "inflight" /\ run[r].st = "wrapped"
       THEN /\ run' = [run EXCEPT ![r].st = "settled"]
            /\ call' = [Settle(r, "wrapFault", "undefined", "undefined", FnFault)
                           EXCEPT ![r].fn = "failed"]
       ELSE /\ run' = run
            /\ call' = [call EXCEPT ![r].fn = "failed"]
    /\ UNCHANGED <<variant, lastTerminal, waiters, stale, tasks, isRunning, completedSuccessfully,
                   returnValue, ctx, engine, aborted, events, nruns>>

\* the step resumes from a call of the callable that the "abort" callback
\* rejected with Error("Cancel"): the await throws
WrapCancelled(r, caught) ==
    /\ NoListener
    /\ run[r].pc = "inflight"
    /\ run[r].st = "wrapRejected"
    /\ run' = [run EXCEPT ![r].st = IF caught THEN "running" ELSE "settled"]
    /\ call' = IF caught THEN call
                         ELSE Settle(r, "wrapAbort", "undefined", "undefined", CancelSignal)
    /\ UNCHANGED <<variant, lastTerminal, waiters, stale, tasks, isRunning, completedSuccessfully, returnValue,
                   ctx, engine, aborted, events, nruns>>

(* --------------------------- other callers ---------------------------- *)
\* Chain.add(task)
Add ==
    /\ Len(tasks) < MaxTasks
    /\ tasks' = Append(tasks, Len(tasks))
    /\ UNCHANGED <<variant, lastTerminal, waiters, stale, isRunning, completedSuccessfully, returnValue, ctx,
                   engine, aborted, run, call, events, nruns>>

\* Chain.cancel() up to its await: abort("Cancel") on the current controller
\* when a run is active
Cancel ==
    /\ isRunning
    /\ ~aborted[engine]
    /\ aborted' = AbortSet(aborted, engine)
    /\ run' = Dispatch(run, engine)
    /\ UNCHANGED <<variant, lastTerminal, waiters, stale, tasks, isRunning, completedSuccessfully, returnValue,
                   ctx, engine, call, events, nruns>>

\* the argument lists of the run() calls made, as <<initial value, context>>:
\* run() in the Engine generation, whose run has no initial value; run()
\* and run(x, ctx) in the ChainController generation
RunArgs ==
    IF variant = "Engine" THEN {<<"undefined", "none">>}
                          ELSE {<<"undefined", "none">>, <<"v1", "arg">>}

Next ==
    \/ \E a \in RunArgs : Run(a[1], a[2])
    \/ \E r \in RunIds : Begin(r)
    \/ \E r \in RunIds : Resume(r)
    \/ \E r \in RunIds : Return(r)
    \/ \E r \in RunIds, v \in StepValues : StepReturn(r, v)
    \/ \E r \in RunIds, f \in StepFaults : StepThrow(r, f)
    \/ \E r \in RunIds, b \in BOOLEAN : StepCancel(r, b)
    \/ \E r \in RunIds, v \in CompleteValues, b \in BOOLEAN : StepComplete(r, v, b)
    \/ \E r \in RunIds, f \in StepFaults : StepRaiseError(r, f)
    \/ \E r \in RunIds : StepCheckAbortSignal(r)
    \/ \E r \in RunIds : StepAbort(r)
    \/ \E r \in RunIds : StepSleep(r)
    \/ \E r \in RunIds : SleepTimeout(r)
    \/ \E r \in RunIds, b \in BOOLEAN : SleepCancelled(r, b)
    \/ Add
    \/ Cancel

Spec == Init /\ [][Next]_vars

\* The event loop makes progress (a due timer fires, code suspended on a
\* settled promise resumes), and every step that is invoked settles: a step
\* that can return again and again does return
FairRuns ==
    \A r \in RunIds :
        /\ WF_vars(Begin(r))
        /\ WF_vars(Resume(r))
        /\ WF_vars(Return(r))
        /\ WF_vars(SleepTimeout(r))
        /\ WF_vars(SleepCancelled(r, FALSE))
        /\ SF_vars(\E v \in StepValues : StepReturn(r, v))

SpecFair == Spec /\ FairRuns

(* ------------------------- fetch and wrap ----------------------------- *)
\* The Chain with steps that use every primitive of the controller; run()
\* is called without arguments
NextPrimitives ==
    \/ Run("undefined", "none")
    \/ \E r \in RunIds : Begin(r)
    \/ \E r \in RunIds : Resume(r)
    \/ \E r \in RunIds : Return(r)
    \/ \E r \in RunIds : StepReturn(r, "undefined")
    \/ \E r \in RunIds, v \in CompleteValues, b \in BOOLEAN : StepComplete(r, v, b)
    \/ \E r \in RunIds : StepCheckAbortSignal(r)
    \/ \E r \in RunIds : StepAbort(r)
    \/ \E r \in RunIds : StepSleep(r)
    \/ \E r \in RunIds : SleepTimeout(r)
    \/ \E r \in RunIds, b \in BOOLEAN : SleepCancelled(r, b)
    \/ \E r \in RunIds : StepFetch(r)
    \/ \E r \in RunIds : FetchSettles(r)
    \/ \E r \in RunIds : FetchAbort(r)
    \/ \E r \in RunIds, b \in BOOLEAN : FetchCancelled(r, b)
    \/ \E r \in RunIds : StepWrap(r)
    \/ \E r \in RunIds : StepWrapCall(r)
    \/ \E r \in RunIds : FnSettles(r)
    \/ \E r \in RunIds : FnFails(r)
    \/ \E r \in RunIds, b \in BOOLEAN : WrapCancelled(r, b)
    \/ Add
    \/ Cancel

SpecPrimitives == Init /\ [][NextPrimitives]_vars

(* --------------------------- stale controllers ------------------------ *)
\* the controller c was made for a run that has ended, and a step of that
\* run kept a reference to it (the controller of the field initialiser is
\* handed to no step)
Stale(c) ==
    /\ c # engine \/ ~isRunning
    /\ \/ run[c].pc = "emitted"
       \/ run[c].pc = "done" /\ run[c].ret # "refused"

\* A callback a step left behind, or a listener, calls a method of the stale
\* controller c; eff is what the method does before it throws.  What it
\* throws goes to the caller.
StaleCtl(c, op, eff) ==
    /\ Stale(c)
    /\ stale' = [ctl |-> c, op |-> op]
    /\ returnValue' = eff.rv
    /\ aborted' = IF eff.abort THEN AbortSet(aborted, c) ELSE aborted
    /\ run' = IF eff.abort THEN Dispatch(run, c) ELSE run
    /\ UNCHANGED <<variant, lastTerminal, waiters, tasks, isRunning, completedSuccessfully, ctx,
                   engine, call, events, nruns>>

StaleCancel(c) == StaleCtl(c, "cancel", CtlCancel)
StaleComplete(c, v) == StaleCtl(c, "complete", CtlComplete(c, v))
StaleRaiseError(c, e) ==
    /\ variant = "Engine"
    /\ StaleCtl(c, "raiseError", CtlRaiseError(c, e))

\* The Chain with callbacks that outlive the run of their step
NextStale ==
    \/ Next
    \/ \E c \in RunIds : StaleCancel(c)
    \/ \E c \in RunIds, v \in CompleteValues : StaleComplete(c, v)
    \/ \E c \in RunIds, e \in StepFaults : StaleRaiseError(c, e)

SpecStale == Init /\ [][NextStale]_vars

(* ------------------- waitForChainToFinish, Chain.cancel --------------- *)
\* waitForChainToFinish() up to its first suspension: the loop condition is
\* read at once; while (this.isRunning) await sleep(100)
Wait(w) ==
    IF isRunning THEN [w EXCEPT !.polling = @ + 1, !.during = @ \cup {engine}]
                 ELSE [w EXCEPT !.resolved = @ + 1]

WaitForChainToFinish ==
    /\ waiters.polling + waiters.resolved < MaxWaiters
    /\ waiters' = Wait(waiters)
    /\ UNCHANGED <<variant, lastTerminal, stale, tasks, isRunning, completedSuccessfully, returnValue,
                   ctx, engine, aborted, run, call, events, nruns>>

\* the timer of a sleep(100) fires and the loop reads isRunning again
WaiterWakes ==
    /\ NoListener
    /\ waiters.polling > 0
    /\ waiters' = IF isRunning THEN waiters
                  ELSE [polling |-> waiters.polling - 1,
                        resolved |-> waiters.resolved + 1,
                        during |-> IF waiters.polling = 1 THEN {}
                                                          ELSE waiters.during]
    /\ UNCHANGED <<variant, lastTerminal, stale, tasks, isRunning, completedSuccessfully, returnValue,
                   ctx, engine, aborted, run, call, events, nruns>>

\* a faulty variant of ChainCancel: abort("Cancel") whether or not a run is
\* active (C20 must tell it from ChainCancel)
ChainCancelUnguarded ==
    /\ waiters.polling + waiters.resolved < MaxWaiters
    /\ aborted' = AbortSet(aborted, engine)
    /\ run' = IF aborted[engine] THEN run ELSE Dispatch(run, engine)
    /\ waiters' = Wait(waiters)
    /\ UNCHANGED <<variant, lastTerminal, stale, tasks, isRunning, completedSuccessfully, returnValue,
                   ctx, engine, call, events, nruns>>

\* a faulty variant of ChainCancel: cancel() itself takes the Chain out of
\* Running (C32 must tell it from ChainCancel)
ChainCancelCommits ==
    /\ waiters.polling + waiters.resolved < MaxWaiters
    /\ aborted' = IF isRunning THEN AbortSet(aborted, engine) ELSE aborted
    /\ run' = IF isRunning /\ ~aborted[engine] THEN Dispatch(run, engine) ELSE run
    /\ isRunning' = FALSE
    /\ waiters' = Wait(waiters)
    /\ UNCHANGED <<variant, lastTerminal, stale, tasks, completedSuccessfully, returnValue,
                   ctx, engine, call, events, nruns>>

\* Chain.cancel(): abort("Cancel") on the current controller when a run is
\* active, then waitForChainToFinish()
ChainCancel ==
    /\ waiters.polling + waiters.resolved < MaxWaiters
    /\ aborted' = IF isRunning THEN AbortSet(aborted, engine) ELSE aborted
    /\ run' = IF isRunning /\ ~aborted[engine] THEN Dispatch(run, engine) ELSE run
    /\ waiters' = Wait(waiters)
    /\ UNCHANGED <<variant, lastTerminal, stale, tasks, isRunning, completedSuccessfully, returnValue,
                   ctx, engine, call, events, nruns>>

\* what the steps of a Chain with waiting callers throw: an ordinary fault,
\* and the null on which the catch block of run() itself fails
WaiterFaults ==
    { Fault("Error", "custom error", "undefined", "step"),
      Fault("null", "", "undefined", "step") }

\* The Chain with callers that wait for it: steps that return, throw, sleep
\* or complete, and cancel() / waitForChainToFinish() called at any point
NextWaiters ==
    \/ \E a \in RunArgs : Run(a[1], a[2])
    \/ \E r \in RunIds : Begin(r)
    \/ \E r \in RunIds : Resume(r)
    \/ \E r \in RunIds : Return(r)
    \/ \E r \in RunIds : StepReturn(r, "undefined")
    \/ \E r \in RunIds, f \in WaiterFaults : StepThrow(r, f)
    \/ \E r \in RunIds, v \in CompleteValues : StepComplete(r, v, FALSE)
    \/ \E r \in RunIds : StepSleep(r)
    \/ \E r \in RunIds : SleepTimeout(r)
    \/ \E r \in RunIds : SleepCancelled(r, FALSE)
    \/ Add
    \/ WaitForChainToFinish
    \/ WaiterWakes
    \/ ChainCancel

SpecWaiters == Init /\ [][NextWaiters]_vars

\* What the event loop guarantees: a timer that is due fires, and code
\* suspended on a settled promise resumes.  Whether and when a step
\* returns, and what the callers do, is up to them.
FairWaiters ==
    /\ WF_vars(WaiterWakes)
    /\ \A r \in RunIds :
          /\ WF_vars(Begin(r))
          /\ WF_vars(Resume(r))
          /\ WF_vars(Return(r))
          /\ WF_vars(SleepTimeout(r))
          /\ WF_vars(SleepCancelled(r, FALSE))

SpecWaitersFair == SpecWaiters /\ FairWaiters

(* ============================= properties ============================= *)
\* the events run r emitted, in order, and the terminal ones among them
EventsOf(r) == SelectSeq(events, LAMBDA e : e.run = r)
TerminalEventsOf(r) ==
    SelectSeq(events, LAMBDA e : e.run = r /\ e.name \in {"complete", "cancel", "error"})
LastEvent == events[Len(events)]
Event(name, r, idx, e) == [name |-> name, run |-> r, index |-> idx, error |-> e]

\* run r was accepted and its promise has not settled
Accepted(r) == run[r].pc \in {"started", "inflight", "emitted"}
\* the step in which run r leaves its loop
Ends(r) == run[r].pc \in {"started", "inflight"} /\ run'[r].pc \notin {"started", "inflight"}
\* the step in which the promise of the accepted run r settles
Settles(r) == Accepted(r) /\ run'[r].pc = "done"
\* the step in which run r invokes a step
Invokes(r) == call'[r].n > call[r].n

\* how the latest step of run r ended
ReturnedNormally(r) == call[r].n = 0 \/ call[r].out = "returned"
ThrewOwnFault(r) == call[r].out = "threw" /\ call[r].fault.origin = "step"
RaisedError(r) == ThrewOwnFault(r) /\ call[r].via = "raiseError"
CalledComplete(r) ==
    call[r].out = "threw" /\ call[r].via = "complete" /\ call[r].fault.message = "Complete"
CalledCancel(r) == call[r].out = "threw" /\ call[r].via = "cancel"
\* the value a run whose steps all returned ends with
LastValue(r) == IF call[r].n = 0 THEN run[r].init ELSE call[r].value

\* C1: every accepted run emits 'run' first and then exactly one of
\* 'complete', 'cancel', 'error' -- never none by the time its promise
\* settles, never two -- whatever the steps and external cancel() calls do
C1_RunThenOneTerminalEvent ==
    [][\A r \in RunIds :
        /\ Accepted(r)' =>
              /\ Len(EventsOf(r)') >= 1
              /\ EventsOf(r)'[1].name = "run"
              /\ Len(TerminalEventsOf(r)') = IF run'[r].pc = "emitted" THEN 1 ELSE 0
        /\ Settles(r) => Len(TerminalEventsOf(r)) = 1]_vars

\* C2: within a run the steps are invoked in ascending order from index 0,
\* none skipped (a run completes normally only after every registered step
\* was invoked), step k+1 only after step k returned normally; and never
\* are two steps of the Chain in flight
C2_StepsInOrderOneAtATime ==
    [][/\ \A r \in RunIds :
            /\ Invokes(r) =>
                  /\ call'[r].n = call[r].n + 1
                  /\ call'[r].index = call[r].n
                  /\ call'[r].index < Len(tasks)
                  /\ call[r].n > 0 => call[r].out = "returned"
            /\ (Ends(r) /\ ReturnedNormally(r) /\ run'[r].pc = "emitted"
                   /\ LastEvent'.name = "complete") => call[r].n = Len(tasks)
       /\ \A r, q \in RunIds :
            (call'[r].out = "inflight" /\ call'[q].out = "inflight") => r = q]_vars

\* a second step was invoked after the first returned
C2_Witness == \E r \in RunIds : call[r].n = 2 /\ call[r].index = 1 /\ call[r].out = "inflight"

\* C3: step k+1 is called with exactly the value step k returned, and step 0
\* with the initial value handed to run() (undefined when none was)
C3_PreviousResultIsThreaded ==
    [][\A r \in RunIds :
        Invokes(r) => call'[r].arg = LastValue(r)]_vars

\* the second step received "v1", which the first step returned, in a run
\* that could be given no initial value
C3_Witness ==
    \E r \in RunIds : variant = "Engine" /\ call[r].n = 2 /\ call[r].arg = "v1"

\* C4: when every one of the N >= 0 registered steps returned normally the
\* run emits 'complete' once with index N-1, with isRunning false,
\* completedSuccessfully true and returnValue the last step's return value
\* (the initial value when N = 0), and run() resolves to that value
C4_NormalCompletion ==
    [][\A r \in RunIds :
        /\ (Ends(r) /\ ReturnedNormally(r) /\ call[r].n = Len(tasks)) =>
              /\ run'[r].pc = "emitted"
              /\ TerminalEventsOf(r)' = <<Event("complete", r, call[r].n - 1, NoFault)>>
              /\ ~isRunning'
              /\ completedSuccessfully'
              /\ returnValue' = LastValue(r)
        /\ (Settles(r) /\ ReturnedNormally(r)
               /\ run[r].pc = "emitted" /\ TerminalEventsOf(r)[1].name = "complete") =>
              /\ run'[r].settled = "fulfilled"
              /\ run'[r].value = LastValue(r)]_vars

C6_CancelShortCircuits ==
    [][\A r \in RunIds :
        /\ (Ends(r) /\ CalledCancel(r)) =>
              /\ run'[r].pc = "emitted"
              /\ TerminalEventsOf(r)' = <<Event("cancel", r, call[r].index, NoFault)>>
              /\ ~isRunning'
        /\ (Accepted(r) /\ CalledCancel(r)) => ~Invokes(r)
        /\ (Settles(r) /\ CalledCancel(r)) =>
              /\ run'[r].settled = "fulfilled"
              /\ run'[r].value = "null"]_vars

\* C7: when step k calls raiseError(e) on an unset token the step ends
\* there, no later step is invoked, 'error' is emitted once with that e and
\* index k and neither 'complete' nor 'cancel', and run() resolves to null
C7_RaiseErrorEndsRunErrored ==
    [][\A r \in RunIds :
        /\ (Ends(r) /\ RaisedError(r)) =>
              /\ run'[r].pc = "emitted"
              /\ TerminalEventsOf(r)' = <<Event("error", r, call[r].index, call[r].fault)>>
        /\ (Accepted(r) /\ RaisedError(r) /\ ~Settles(r)) => call'[r] = call[r]
        /\ (Settles(r) /\ RaisedError(r)) =>
              /\ run'[r].settled = "fulfilled"
              /\ run'[r].value = "null"]_vars

\* C8: a fault thrown by step code that is no controller signal, whatever
\* its content or message, ends the run Errored: 'error' is emitted with
\* that fault and the step's index, completedSuccessfully is false, and
\* run() resolves to null
C8_StepFaultEndsRunErrored ==
    [][\A r \in RunIds :
        /\ (Ends(r) /\ ThrewOwnFault(r)) =>
              /\ run'[r].pc = "emitted"
              /\ LastEvent' = Event("error", r, call[r].index, call[r].fault)
              /\ ~completedSuccessfully'
        /\ (Settles(r) /\ ThrewOwnFault(r)) =>
              /\ run'[r].settled = "fulfilled"
              /\ run'[r].value = "null"]_vars

\* C9: the promise run() returns never rejects, whatever a step returns,
\* signals or throws
C9_RunNeverRejects == \A r \in RunIds : run[r].settled # "rejected"

Refuses(r) == isRunning /\ run[r].pc = "new" /\ run'[r].pc # "new"

\* C11: a run() refused while the Chain is running leaves the active run
\* untouched: isRunning, completedSuccessfully, returnValue, the context,
\* the current controller and its token, the steps and the active run's
\* position and step call are all unchanged
C11_RefusedRunLeavesActiveRunUntouched ==
    [][\A r \in RunIds :
        Refuses(r) =>
            /\ UNCHANGED <<isRunning, completedSuccessfully, returnValue, ctx,
                           engine, aborted, tasks, call>>
            /\ \A q \in RunIds \ {r} : Live(q) => run'[q] = run[q]]_vars

\* a run() call was refused while the step of the active run was asleep
C11_Witness ==
    \E r, q \in RunIds :
        run[r].ret = "refused" /\ run[q].pc = "inflight" /\ run[q].st = "sleeping"

\* run r is between its 'run' event and its terminal state
Running(r) == run[r].pc \in {"started", "inflight"}

\* C12: at most one run of the Chain is running: between a run's 'run'
\* event and its terminal event it is the only run that has emitted 'run'
\* and not ended, it owns the current controller, and only it has a step
\* in flight
C12_AtMostOneRunning ==
    \A r \in RunIds :
        Running(r) =>
            /\ isRunning
            /\ engine = r
            /\ \A q \in RunIds \ {r} : ~Running(q) /\ call[q].out # "inflight"

\* a run is running with its token set by cancel() while a second run()
\* call was refused
C12_Witness ==
    \E r, q \in RunIds :
        /\ run[r].pc = "inflight" /\ call[r].out = "inflight" /\ aborted[run[r].ctl]
        /\ run[q].ret = "refused"

\* the value a run ends Completed with: what the step handed to complete(),
\* else what the last step returned
CompletedValue(r) == IF CalledComplete(r) THEN call[r].handed ELSE LastValue(r)

\* C13: when a terminal event is delivered isRunning is already false and
\* completedSuccessfully and returnValue already hold the run's final
\* values: true and the completed value for 'complete', false and null for
\* 'cancel' and 'error'
C13_StateCommittedBeforeTerminalEvent ==
    [][\A r \in RunIds :
        (Ends(r) /\ run'[r].pc = "emitted") =>
            /\ ~isRunning'
            /\ LastEvent'.name = "complete" =>
                  completedSuccessfully' /\ returnValue' = CompletedValue(r)
            /\ LastEvent'.name \in {"cancel", "error"} =>
                  ~completedSuccessfully' /\ returnValue' = "null"]_vars

\* the listeners of the terminal event of run q are executing, and no run
\* they started before is still in its loop
InTerminalHandler(q) ==
    /\ run[q].pc = "emitted"
    /\ IsTop(q)
    /\ \A p \in RunIds : p > q => run[p].pc # "inflight"

\* C14: a run() called by a listener from inside the handler of a terminal
\* event is accepted: no 'Already running', it emits its own 'run' event,
\* gets a new Controller with a clear token, and its steps are executed from
\* index 0 with that Controller
C14_RunFromTerminalHandlerIsAccepted ==
    [][/\ \A q \in RunIds :
            (InTerminalHandler(q) /\ nruns' = nruns + 1) =>
                LET r == nruns + 1 IN
                /\ run'[r].pc = "started"
                /\ isRunning'
                /\ LastEvent' = Event("run", r, -1, NoFault)
                /\ engine' = r /\ engine' # engine
                /\ ~aborted'[r]
       /\ \A r \in RunIds :
            (run[r].pc = "started" /\ Invokes(r)) =>
                /\ call'[r].index = 0
                /\ run'[r].ctl = r
                /\ engine' = r]_vars

C14_Witness ==
    \E q, r \in RunIds :
        /\ q < r
        /\ run[q].pc = "emitted"
        /\ run[r].pc = "inflight" /\ call[r].index = 0 /\ run[r].ctl = r

\* the step of run r is suspended in controller.sleep(d)
Sleeping(r) == run[r].pc = "inflight" /\ run[r].st = "sleeping"
\* the sleep the latest step of run r was suspended in was ended by the
\* token, and its Error("Cancel") left the step
SleepAborted(r) == call[r].out = "threw" /\ call[r].via = "sleepAbort"

\* C15: Chain.cancel() from outside while step k is suspended in sleep(d):
\* the sleep ends at once, without its timer; once its rejection has left
\* step k no step is invoked any more, 'cancel' is emitted (once, see C1)
\* with index k, and run() resolves to null
C15_CancelDuringSleep ==
    [][\A r \in RunIds :
        /\ (Sleeping(r) /\ NoListener /\ ~aborted[engine] /\ aborted'[engine]) =>
              run'[r].st = "sleepRejected"
        /\ run[r].st = "sleepRejected" => run'[r].st # "sleeping"
        /\ SleepAborted(r) =>
              /\ ~Invokes(r)
              /\ Ends(r) => LastEvent' = Event("cancel", r, call[r].index, NoFault)
              /\ Settles(r) => /\ run'[r].settled = "fulfilled"
                               /\ run'[r].value = "null"]_vars

C15_Witness ==
    \E r \in RunIds :
        /\ run[r].pc = "emitted" /\ SleepAborted(r) /\ call[r].index = 1
        /\ LastEvent = Event("cancel", r, 1, NoFault)

\* the index of the step the loop of run r invokes next, when it is at the
\* top of an iteration (-1 when it is not, or when no step is left)
NextStep(r) ==
    IF run[r].pc = "started" /\ HasTask(0) THEN 0
    ELSE IF /\ run[r].pc = "inflight" /\ run[r].st = "settled"
            /\ call[r].out = "returned" /\ HasTask(run[r].i + 1)
         THEN run[r].i + 1
         ELSE -1
\* run r was ended by the check at the top of an iteration, not by a step
CancelledByLoop(r) ==
    /\ run[r].pc = "emitted"
    /\ ReturnedNormally(r)
    /\ \E j \in DOMAIN events : events[j].run = r /\ events[j].name = "cancel"

\* C17: when the token is already set as the loop is about to invoke step k,
\* step k is not invoked and the run ends Cancelled: 'cancel' is emitted
\* (with index k) and run() resolves to null
C17_TokenSetBeforeStep ==
    [][\A r \in RunIds :
        /\ (NextStep(r) >= 0 /\ aborted[engine] /\ run'[r] # run[r]) =>
              /\ ~Invokes(r)
              /\ run'[r].pc = "emitted"
              /\ LastEvent' = Event("cancel", r, NextStep(r), NoFault)
              /\ ~isRunning' /\ ~completedSuccessfully'
        /\ (CancelledByLoop(r) /\ Settles(r)) =>
              /\ run'[r].settled = "fulfilled"
              /\ run'[r].value = "null"]_vars

C17_Witness ==
    \E r \in RunIds :
        /\ CancelledByLoop(r)
        /\ call[r].n = 1 /\ call[r].out = "returned"
        /\ LastEvent = Event("cancel", r, 1, NoFault)

\* the latest step of run r called complete(v) on a set token, and the
\* signal complete raised left the step
CompleteOnSetToken(r) ==
    call[r].out = "threw" /\ call[r].via = "complete" /\ call[r].fault = CancelSignal

\* C19: cancellation wins over completion: when the token is set as a step
\* calls complete(v), the run ends with 'cancel' and never 'complete',
\* returnValue is null, completedSuccessfully is false, and run() resolves
\* to null
C19_CancelWinsOverComplete ==
    [][\A r \in RunIds :
        CompleteOnSetToken(r) =>
            /\ ~Invokes(r)
            /\ Ends(r) => /\ LastEvent' = Event("cancel", r, call[r].index, NoFault)
                          /\ returnValue' = "null"
                          /\ ~completedSuccessfully'
            /\ run[r].pc = "emitted" =>
                  \A j \in DOMAIN events' : events'[j].run = r => events'[j].name # "complete"
            /\ Settles(r) => /\ run'[r].settled = "fulfilled"
                             /\ run'[r].value = "null"]_vars

C19_Witness ==
    \E r \in RunIds :
        /\ run[r].pc = "emitted" /\ CompleteOnSetToken(r)
        /\ LastEvent = Event("cancel", r, call[r].index, NoFault)
        /\ returnValue = "null" /\ ~completedSuccessfully

\* the step in which a caller calls Chain.cancel() or waitForChainToFinish()
Waits == waiters'.polling + waiters'.resolved > waiters.polling + waiters.resolved

WrapPending(r) ==
    run[r].pc = "inflight" /\ run[r].st = "wrapped" /\ ~aborted[run[r].ctl]
\* the call of the callable was failed by the token, and its Error("Cancel")
\* left the step
WrapAborted(r) == call[r].out = "threw" /\ call[r].via = "wrapAbort"

\* C16: when the token is set while a call made through a callable of
\* wrap(fn) is pending, the call fails with a 'Cancel' fault without waiting
\* for fn, which is left running; once that fault has left the step, no
\* later step is invoked and the run ends with 'cancel' at that step
C16_CancelDuringWrappedCall ==
    [][\A r \in RunIds :
        /\ (WrapPending(r) /\ aborted'[run[r].ctl]) =>
              /\ run'[r].st = "wrapRejected"
              /\ call'[r].fn = "pending"
        /\ (run[r].st = "wrapRejected" /\ run'[r].st # "wrapRejected") =>
              \/ call'[r].fault = CancelSignal /\ WrapAborted(r)'
              \/ run'[r].st = "running"
        /\ WrapAborted(r) =>
              /\ ~Invokes(r)
              /\ Ends(r) => LastEvent' = Event("cancel", r, call[r].index, NoFault)]_vars

C16_Witness ==
    \E r \in RunIds :
        /\ run[r].pc = "emitted" /\ WrapAborted(r) /\ call[r].fn = "pending"
        /\ call[r].index = 0 /\ HasTask(1)
        /\ LastEvent = Event("cancel", r, 0, NoFault)

\* the ways a step calls a primitive of the controller that checks the token
Primitives == {"sleep", "fetch", "wrap", "complete", "check"}
\* a primitive called on a set token raised the cancel signal, which left
\* the step
RaisedOnSetToken(r) ==
    call[r].out = "threw" /\ call[r].via \in Primitives /\ call[r].fault = CancelSignal

\* C18: cancellation is level-triggered for every primitive: sleep, fetch,
\* wrap, complete and checkAbortSignal called after the token was set raise
\* the cancel signal at once -- none suspends the step, hands out a
\* callable or completes the run -- and once the signal has left the step
\* nothing of the step executes and no later step is invoked
C18_LevelTriggered ==
    [][\A r \in RunIds :
        /\ (InStep(r) /\ aborted[run[r].ctl]) =>
              /\ run'[r].st \notin {"sleeping", "fetching"}
              /\ call'[r].fn = "callable" => call[r].fn = "callable"
              /\ call'[r].via = "complete" => call'[r].fault = CancelSignal
              /\ call'[r].via \in Primitives => RaisedOnSetToken(r)'
        /\ RaisedOnSetToken(r) =>
              /\ ~InStep(r)
              /\ ~Invokes(r)
              /\ Live(r)' => run'[r].st \in {"settled", "none"}
              /\ Ends(r) => LastEvent' = Event("cancel", r, call[r].index, NoFault)]_vars

C18_Witness ==
    \E r \in RunIds :
        /\ run[r].pc = "emitted" /\ RaisedOnSetToken(r) /\ call[r].via = "fetch"
        /\ call[r].index = 0 /\ HasTask(1)
        /\ LastEvent = Event("cancel", r, 0, NoFault)

\* the step in which a suspended waitForChainToFinish() (or the one at the
\* end of Chain.cancel()) resolves
Resolves == waiters'.polling < waiters.polling

\* C21: a Chain.cancel() or waitForChainToFinish() call made while run R is
\* Running does not resolve while isRunning is true: when it resolves R is
\* out of its loop with no step in flight, and R has emitted its terminal
\* event (it did not end without one)
C21_WaiterResolvesAfterRunUnwound ==
    [][Resolves =>
          /\ ~isRunning
          /\ \A R \in waiters.during :
                /\ ~Running(R)
                /\ call[R].out # "inflight"
                /\ ~(run[R].pc = "done" /\ run[R].settled = "rejected")]_vars

\* a call of waitForChainToFinish() made during run R is still suspended
PendingSince(R) == R \in waiters.during

\* C22: a waitForChainToFinish() (or Chain.cancel()) call that is pending
\* during a run eventually resolves once that run has returned to Idle, and
\* while it is pending a run() made on the idle Chain is accepted
C22_WaiterEventuallyResolves ==
    /\ \A R \in RunIds : (PendingSince(R) /\ ~Running(R)) ~> ~PendingSince(R)
    /\ [][(waiters.polling > 0 /\ ~isRunning /\ nruns' = nruns + 1) =>
             run'[nruns + 1].pc = "started"]_vars

\* C23: the context is shared by reference and persists: controller.ctx and
\* chain.ctx read the one mapping the Chain holds, and that mapping is
\* replaced only when an accepted run() is given a context, by that very
\* object; a run() given none keeps the mapping of the constructor or of the
\* previous run
C23_ContextAdoptedOrKept ==
    [][ctx' # ctx =>
          /\ nruns' = nruns + 1
          /\ run'[nruns + 1].pc = "started"
          /\ ctx' = CtxArg]_vars

\* the step in which a detached callback calls a method of a stale controller
StaleCall == stale' # stale

\* C27: a stale Controller does not affect the Chain: cancel(), complete(v)
\* or raiseError(e) called on the Controller of a run that has ended changes
\* none of isRunning, completedSuccessfully and returnValue, emits no event,
\* and leaves the run that is Running, its step and its token as they are
C27_StaleControllerHasNoEffect ==
    [][StaleCall =>
          /\ UNCHANGED <<isRunning, completedSuccessfully, returnValue, events,
                         run, call>>
          /\ aborted'[engine] = aborted[engine]]_vars

\* run r is the run that ended last, and it ended Cancelled or Errored (its
\* terminal event is being delivered; no run was accepted since)
EndedWithout(r) ==
    /\ run[r].pc = "emitted"
    /\ engine = r
    /\ \E j \in DOMAIN events :
          events[j].run = r /\ events[j].name \in {"cancel", "error"}

\* C24: whenever the Chain is Idle after a run that ended Cancelled or
\* Errored, returnValue is null and completedSuccessfully is false
C24_NoValueAfterCancelOrError ==
    \A r \in RunIds :
        (~isRunning /\ EndedWithout(r)) =>
            returnValue = "null" /\ ~completedSuccessfully

\* the index of the last step run r invoked, -1 when it invoked none
LastInvoked(r) == IF call[r].n = 0 THEN -1 ELSE call[r].index

\* C25: the index carried by every event is -1 exactly when no step has been
\* invoked in that run (the 'run' event, the 'Already running' error, a
\* terminal event before any step) and otherwise the index of the last step
\* that was invoked in that run
C25_EventIndexIsLastInvokedStep ==
    [][/\ nruns' = nruns + 1 =>
            LastEvent'.run = nruns + 1 /\ LastEvent'.index = -1
       /\ \A r \in RunIds :
            (Ends(r) /\ run'[r].pc = "emitted") =>
                LastEvent'.run = r /\ LastEvent'.index = LastInvoked(r)]_vars

\* the step in which the run() call r is accepted
Accepts(r) == run[r].pc = "new" /\ run'[r].pc = "started"

\* C26: each accepted run gets a new Controller whose token is unset,
\* whatever the tokens of the runs before it; with a clear token its loop
\* invokes step 0; and no token but that of the current Controller is ever
\* set, so a Chain.cancel() during a later run sets only that run's token
C26_FreshControllerPerRun ==
    [][/\ \A r \in RunIds :
            /\ Accepts(r) => engine' = r /\ engine' # engine /\ ~aborted'[r]
            /\ (run[r].pc = "started" /\ run'[r] # run[r] /\ HasTask(0)
                    /\ ~aborted[engine]) =>
                  Invokes(r) /\ call'[r].index = 0 /\ run'[r].ctl = r
       /\ \A c \in CtlIds : c # engine' => aborted'[c] = aborted[c]]_vars

C26_Witness ==
    /\ aborted[1] /\ ~aborted[2]
    /\ run[2].pc = "inflight" /\ run[2].st = "settled"
    /\ call[2].out = "returned" /\ call[2].index = 1 /\ Len(tasks) = 2

\* C28: when the token is set while controller.sleep(d) is pending, the
\* sleep promise fulfils early rather than raising: it is not rejected, and
\* the step continues after the await with no fault thrown there
C28_SleepFulfilsOnCancel ==
    [][\A r \in RunIds :
        /\ (Sleeping(r) /\ ~aborted[run[r].ctl] /\ aborted'[run[r].ctl]) =>
              run'[r].st # "sleepRejected"
        /\ (run[r].pc = "inflight" /\ run[r].st = "sleepRejected"
                /\ run'[r].st # "sleepRejected") =>
              run'[r].st = "running" /\ call'[r].out = "inflight"]_vars

\* the latest controller.sleep of run r has settled
SleepSettled(r) == Live(r) /\ ~Sleeping(r)

\* C29: after a controller.sleep(d) promise has settled, by timeout or by
\* cancellation, neither its timer nor its subscription to the token remains
\* registered
C29_SleepLeavesNothingRegistered ==
    \A r \in RunIds : SleepSettled(r) => ~run[r].timer /\ ~run[r].listener

\* the step of run r invokes the callable controller.wrap(fn) returned
InvokesCallable(r) ==
    /\ run[r].pc = "inflight"
    /\ call[r].fn = "callable"
    /\ call'[r].fn = "pending"

\* C30: a callable obtained from controller.wrap(fn) while the token was
\* unset, and invoked after the token has been set, fails with the
\* cancellation fault without waiting for fn's result, as a call does that
\* is pending when the token is set: the call is rejected at once, and no
\* call on a set token goes on with the result of fn
C30_CallableFailsOnSetToken ==
    [][\A r \in RunIds :
        /\ (InvokesCallable(r) /\ aborted[run[r].ctl]) =>
              run'[r].st = "wrapRejected"
        /\ (run[r].pc = "inflight" /\ run[r].st = "wrapped"
                /\ aborted[run[r].ctl]) =>
              run'[r].st \in {"wrapped", "wrapRejected"}]_vars

\* a fetch of the step of run r was aborted by the token, and what it
\* rejected with left the step
FetchAborted(r) == call[r].out = "threw" /\ call[r].via = "fetchAbort"

\* C31: if the token is set (by Chain.cancel() or by abortController.abort())
\* while a step is suspended in controller.fetch, the failure of the aborted
\* call is treated as a cancellation: the run ends with a 'cancel' event and
\* not with an 'error' event
C31_AbortedFetchEndsWithCancel ==
    [][\A r \in RunIds :
        (FetchAborted(r) /\ Ends(r)) =>
            LastEvent' = Event("cancel", r, call[r].index, NoFault)]_vars

\* C32: external Chain.cancel() only sets the token of the current Controller
\* and then waits: it writes none of isRunning, completedSuccessfully and
\* returnValue, emits no event and moves no run() call; the Chain leaves
\* Running only in a step of the run loop
C32_CancelCommitsNothing ==
    [][/\ Waits =>
            /\ UNCHANGED <<isRunning, completedSuccessfully, returnValue, events,
                           call, ctx, engine, tasks, nruns>>
            /\ \A c \in CtlIds : aborted'[c] # aborted[c] => c = engine /\ isRunning
            /\ \A r \in RunIds : run'[r].pc = run[r].pc
       /\ (isRunning /\ ~isRunning') => ~Waits /\ \E r \in RunIds : Ends(r)]_vars

\* the token of run 1 was set from outside while its last step was in
\* flight; the step returned normally and the loop committed 'complete'
C32_Witness ==
    /\ variant = "Engine"
    /\ aborted[1] /\ waiters.polling + waiters.resolved > 0
    /\ run[1].pc = "emitted" /\ call[1].out = "returned"
    /\ LastEvent = Event("complete", 1, 0, NoFault)
    /\ completedSuccessfully

\* the step of run r in flight has called controller.cancel() or
\* controller.complete(v) and caught what it raised
Swallowed(r) ==
    run[r].pc = "inflight" /\ call[r].swallowed \in {"cancel", "complete"}

\* C33: controller.cancel() and controller.complete(v) set the token
\* themselves before raising their signal: once either was called in a run
\* the token is set even if the step catches the signal and returns
\* normally, and no later step of that run is invoked
C33_SignalSetsTokenEvenIfCaught ==
    [][\A r \in RunIds :
        /\ Swallowed(r)' => aborted'[run'[r].ctl]
        /\ (run[r].pc = "inflight" /\ aborted[run[r].ctl]) => ~Invokes(r)]_vars

\* the step in which run r ends through a signal or a fault: its terminal
\* event is 'cancel' or 'error', or 'complete' after its step raised the
\* signal of complete(v)
EndsBySignal(r) ==
    /\ Ends(r)
    /\ run'[r].pc = "emitted"
    /\ \/ LastEvent'.name \in {"cancel", "error"}
       \/ LastEvent'.name = "complete" /\ CalledComplete(r)

\* C34: the token of a Controller is monotonic (once set it is never unset),
\* and whenever a run ends through a signal or a fault the token of the
\* Controller of that run is set by the time the terminal event is emitted
C34_TokenSetWhenRunEndsBySignal ==
    [][/\ \A c \in CtlIds : aborted[c] => aborted'[c]
       /\ \A r \in RunIds : EndsBySignal(r) => aborted'[r]]_vars

\* run r was accepted and its terminal state is not committed yet: it is
\* delivering its 'run' event or it is in its loop
Uncommitted(r) == run[r].pc \in {"started", "inflight"}

\* C35: when the 'run' event of an accepted run is delivered isRunning is
\* true, completedSuccessfully is false and returnValue is null, whatever
\* the previous run left there, and the three hold at every point of the run
\* until its terminal state is committed
C35_RunningStateUntilCommit ==
    \A r \in RunIds :
        Uncommitted(r) =>
            isRunning /\ ~completedSuccessfully /\ returnValue = "null"

\* C36: every accepted run whose invoked steps each eventually settle
\* eventually emits its terminal event and returns isRunning to false (also
\* after an external Chain.cancel() that found its step suspended in sleep)
C36_RunTerminates ==
    \A r \in RunIds :
        Uncommitted(r) ~> (run[r].pc = "emitted" /\ ~isRunning)

\* the value of the terminal state run r committed: what returnValue held
\* at its 'complete' event (the value handed to complete(v), or the return
\* of the last step), null for 'cancel' and 'error'
OwnValue(r) ==
    IF TerminalEventsOf(r)[1].name = "complete" THEN run[r].committed ELSE "null"

\* C37: the value a run() call resolves to is the value of its own terminal
\* state, even when a listener of its terminal event has started a new run()
\* from inside the handler
C37_ResolvesToOwnValue ==
    [][\A r \in RunIds :
        (run[r].pc = "emitted" /\ Settles(r)) =>
            /\ run'[r].settled = "fulfilled"
            /\ run'[r].value = OwnValue(r)]_vars

\* C38: whenever the Chain is Idle after at least one accepted run,
\* completedSuccessfully is true if and only if the most recent terminal
\* event emitted was 'complete'; the 'Already running' error event of a
\* refused run() never changes the flag
C38_FlagMatchesLastTerminalEvent ==
    [][/\ (~isRunning' /\ engine' # 0) =>
            (completedSuccessfully' <=> lastTerminal' = "complete")
       /\ \A r \in RunIds : Refuses(r) => completedSuccessfully' = completedSuccessfully]_vars

\* the latest step of run r has returned normally and the loop of r is
\* about to go on
StepReturned(r) ==
    run[r].pc = "inflight" /\ run[r].st = "settled" /\ call[r].out = "returned"

\* C39: add() may be called at any time and only appends; a step appended
\* while a run is in progress is invoked in that run after the steps before
\* it have returned normally (the loop looks at the list as it is then), and
\* the 'complete' index and the resolved value are those of the last step
\* the list has when the loop ends
C39_AppendedStepRunsInSameRun ==
    [][/\ tasks' # tasks =>
            /\ \E x \in 0..MaxTasks : tasks' = Append(tasks, x)
            /\ UNCHANGED <<isRunning, completedSuccessfully, returnValue, ctx,
                           engine, aborted, run, call, events, nruns>>
       /\ \A r \in RunIds :
            /\ (StepReturned(r) /\ run'[r] # run[r]) =>
                  IF HasTask(call[r].index + 1)
                  THEN ~aborted[run[r].ctl] =>
                          /\ Invokes(r)
                          /\ call'[r].index = call[r].index + 1
                          /\ call'[r].arg = call[r].value
                  ELSE LastEvent' = Event("complete", r, call[r].index, NoFault)
            /\ (run[r].pc = "emitted" /\ Settles(r) /\ call[r].out = "returned"
                    /\ TerminalEventsOf(r)[1].name = "complete") =>
                  run'[r].value = call[r].value]_vars

\* the call the step of run r made through the callable of wrap() is
\* pending: neither fn nor the token has settled it
CallPending(r) == run[r].pc = "inflight" /\ run[r].st = "wrapped"

\* C40: after a call made through a callable returned by controller.wrap(fn)
\* has settled -- by the result of fn, by the fault of fn, or by
\* cancellation -- no subscription of that call to the token remains
\* registered
C40_WrappedCallLeavesNoSubscription ==
    \A r \in RunIds : (Live(r) /\ call[r].sub) => CallPending(r)

====
